---- MODULE Spec2Model ----
(***************************************************************************)
(* ShadowMe adaptive recommendation engine: the cognitive-load estimator,  *)
(* the decision scorer, the card assembler, the CSP learning updater and   *)
(* the routes that persist their results (POST /feedback, POST /profile,   *)
(* POST /plan/generate).                                                   *)
(*                                                                         *)
(* Numbers.  Weights are JavaScript doubles in [0,1]; they are modelled in *)
(* fixed point, in thousandths (One = 1.0): the steps the code takes (0.1,  *)
(* 0.05, 0.03) are whole numbers of thousandths, so the model computes in  *)
(* exact arithmetic; the rounding error of a double is not modelled.  A    *)
(* score is kept in thousandths of a point until Math.round.  A field a    *)
(* JSON vector does not carry                                              *)
(* (undefined) is Absent; `x || d` is Or(x, d): JavaScript takes d for an  *)
(* undefined x and also for x = 0.                                         *)
(*                                                                         *)
(* Store.  A call of the store client resolves with {data, error}; a call  *)
(* that fails resolves with data = null and an error ("error").  A call    *)
(* that rejects ("throw") is modelled where the code catches it itself, in *)
(* the estimator.  Texts are sequences of words, so that                   *)
(* String.prototype.includes is a search for a subsequence.               *)
(***************************************************************************)
EXTENDS Integers, Sequences, FiniteSets, TLC

VARIABLES
    profile,        \* the user's row of table profiles: NoProfile, or [csp_vector |-> ...]
    feedback,       \* table feedback: the set of stored rows
    daily_plans,    \* table daily_plans: the rows of the user for today
    decisions,      \* table decisions, the active rows of the user
    requests,       \* the feedback updates in flight, one record per handler
    calls,          \* how many feedback updates have been started
    loadCall,       \* a call of calculateCognitiveLoad: its inputs and its result
    scoreCall,      \* a call of scoreDecision: its arguments and its result
    cardsCall,      \* a call of generateCompressedCards: its arguments and its result
    planCall,       \* the POST /plan/generate requests in flight and the clock they run at
    interaction_events  \* table interaction_events: the set of stored rows

vars == <<profile, feedback, daily_plans, decisions, requests, calls,
          loadCall, scoreCall, cardsCall, planCall, interaction_events>>

-----------------------------------------------------------------------------
(* Bounds of the model *)

\* updateCspFromFeedback calls explored in one run of the learning service
MaxDecisions == 4
\* feedback updates (POST /feedback requests, learning-service calls) of one run,
\* each free to overlap the others
NumRequests == 3
\* the length preferred_alternatives is kept to
MaxAlternatives == 20

\* feedback rows of today that the estimator can find
MaxFeedbackToday == 12
\* session_end events of today that the estimator can find
MaxSessions == 2
\* rows of recent feedback handed to the scorer (the engine reads at most 50)
MaxRecentFeedback == 5
\* POST /plan/generate requests of one user on one day
NumPlanRequests == 2
\* feedback of one kind a profile has learned from before a streak is looked at
MaxSeason == 9
\* calls of the learning service in a streak
MaxStreak == 3

-----------------------------------------------------------------------------
(* Numbers *)

\* LEARNING_RATE = 0.1, in thousandths
LEARNING_RATE == 100
One == 10 * LEARNING_RATE
Absent == 0 - 1

Min(a, b) == IF a < b THEN a ELSE b
Max(a, b) == IF a > b THEN a ELSE b

\* JavaScript `x || d` on a number: d when x is undefined or 0
Or(x, d) == IF x = Absent \/ x = 0 THEN d ELSE x

\* Math.round on n/d for d > 0: the nearest integer, a half rounding up
Round(n, d) == (2 * n + d) \div (2 * d)

\* a / b as JavaScript computes a rate: NaN (den = 0) when a is undefined or b = 0
Rate(a, b) == IF a = Absent \/ b = Absent \/ b = 0
              THEN [num |-> 0, den |-> 0]
              ELSE [num |-> a, den |-> b]
NoRate == [num |-> 0, den |-> 0]

mutClampNoFloor(value) == Min(One, value)
mutClampNoCeiling(value) == Max(0, value)
clamp(value) == Max(0, Min(One, value))

-----------------------------------------------------------------------------
(* The preference vector (CSP) *)

WorkStyles == {"deep_work", "structured", "flexible"}
BreakPreferences == {"short", "long"}

\* POST /profile: the vector stored at profile creation
initialCspVector(work_style, break_preference) ==
    [ morning_task_weight |-> 500,
      afternoon_task_weight |-> 500,
      evening_task_weight |-> 300,
      high_effort_preference |-> IF work_style = "deep_work" THEN 700 ELSE 500,
      low_effort_preference |-> IF work_style = "flexible" THEN 600 ELSE 500,
      break_frequency_weight |-> IF break_preference = "short" THEN 600 ELSE 400,
      focus_duration_preference |-> IF work_style = "deep_work" THEN 90
                                    ELSE IF work_style = "structured" THEN 50 ELSE 30,
      suggestion_confidence |-> Absent,
      high_load_override_tendency |-> Absent,
      accept_rate |-> [num |-> 1, den |-> 2],
      override_rate |-> [num |-> 0, den |-> 1],
      ignore_rate |-> NoRate,
      total_decisions |-> 0,
      total_accepts |-> 0,
      total_overrides |-> 0,
      total_ignores |-> 0,
      consecutive_accepts |-> Absent,
      consecutive_overrides |-> Absent,
      consecutive_ignores |-> Absent,
      needs_recalibration |-> FALSE,
      preferred_alternatives |-> <<>>,
      last_learned_at |-> "null" ]

\* getDefaultCsp of the learning service
getDefaultCsp ==
    [ morning_task_weight |-> 500,
      afternoon_task_weight |-> 500,
      evening_task_weight |-> 300,
      high_effort_preference |-> 500,
      low_effort_preference |-> 500,
      break_frequency_weight |-> 500,
      focus_duration_preference |-> 50,
      suggestion_confidence |-> 500,
      high_load_override_tendency |-> Absent,
      accept_rate |-> [num |-> 0, den |-> 1],
      override_rate |-> [num |-> 0, den |-> 1],
      ignore_rate |-> [num |-> 0, den |-> 1],
      total_decisions |-> 0,
      total_accepts |-> 0,
      total_overrides |-> 0,
      total_ignores |-> 0,
      consecutive_accepts |-> 0,
      consecutive_overrides |-> 0,
      consecutive_ignores |-> 0,
      needs_recalibration |-> FALSE,
      preferred_alternatives |-> <<>>,
      last_learned_at |-> "null" ]

\* the `{}` that updateCspCounters takes for a row without a vector
emptyCsp ==
    [ morning_task_weight |-> Absent,
      afternoon_task_weight |-> Absent,
      evening_task_weight |-> Absent,
      high_effort_preference |-> Absent,
      low_effort_preference |-> Absent,
      break_frequency_weight |-> Absent,
      focus_duration_preference |-> Absent,
      suggestion_confidence |-> Absent,
      high_load_override_tendency |-> Absent,
      accept_rate |-> NoRate,
      override_rate |-> NoRate,
      ignore_rate |-> NoRate,
      total_decisions |-> Absent,
      total_accepts |-> Absent,
      total_overrides |-> Absent,
      total_ignores |-> Absent,
      consecutive_accepts |-> Absent,
      consecutive_overrides |-> Absent,
      consecutive_ignores |-> Absent,
      needs_recalibration |-> FALSE,
      preferred_alternatives |-> <<>>,
      last_learned_at |-> "null" ]

NoProfile == [exists |-> FALSE]
NullVector == [isNull |-> TRUE]
ProfileRow(csp) == [exists |-> TRUE, csp_vector |-> csp]

Actions == {"accept", "override", "ignore"}

\* the band of an hour, as every `hour >= 6 && hour < 12 ... else` of the code
Band(hour) == IF hour >= 6 /\ hour < 12 THEN "morning"
              ELSE IF hour >= 12 /\ hour < 17 THEN "afternoon"
              ELSE "evening"

-----------------------------------------------------------------------------
(* Text.  A string is a sequence of words; includes() is the search for a  *)
(* contiguous run of words.                                                *)

Includes(text, sub) ==
    \E i \in 0..(Len(text) - Len(sub)) :
        \A j \in 1..Len(sub) : text[i + j] = sub[j]

-----------------------------------------------------------------------------
(* The learning service *)

\* the band weight of `hour` moved by delta and clamped; the other bands untouched
AdjustBandWeight(csp, hour, delta) ==
    IF hour >= 6 /\ hour < 12
    THEN [csp EXCEPT !.morning_task_weight = clamp(Or(@, 500) + delta)]
    ELSE IF hour >= 12 /\ hour < 17
    THEN [csp EXCEPT !.afternoon_task_weight = clamp(Or(@, 500) + delta)]
    ELSE [csp EXCEPT !.evening_task_weight = clamp(Or(@, 300) + delta)]

\* context.card_items?.some(item => item?.includes('Focus') || item?.includes('Deep'))
HasEffortTerm(card_items) ==
    \E i \in DOMAIN card_items :
        Includes(card_items[i], <<"Focus">>) \/ Includes(card_items[i], <<"Deep">>)

\* applyAcceptLearning ending the run of ignores as it ends the run of overrides
mutAcceptResetsIgnores(csp, context, hour) ==
    LET timed == AdjustBandWeight(csp, hour, LEARNING_RATE)
        streak == [timed EXCEPT !.consecutive_accepts = Or(@, 0) + 1,
                                !.consecutive_overrides = 0,
                                !.consecutive_ignores = 0,
                                !.needs_recalibration = FALSE]
    IN  IF streak.consecutive_accepts >= 3
        THEN [streak EXCEPT !.suggestion_confidence = clamp(Or(@, 500) + LEARNING_RATE)]
        ELSE streak

applyAcceptLearning(csp, context, hour) ==
    LET timed == AdjustBandWeight(csp, hour, LEARNING_RATE)
        effort == IF HasEffortTerm(context.card_items)
                  THEN [timed EXCEPT !.high_effort_preference =
                                         clamp(Or(@, 500) + LEARNING_RATE \div 2)]
                  ELSE timed
        streak == [effort EXCEPT !.consecutive_accepts = Or(@, 0) + 1,
                                 !.consecutive_overrides = 0]
    IN  IF streak.consecutive_accepts >= 3
        THEN [streak EXCEPT !.suggestion_confidence = clamp(Or(@, 500) + LEARNING_RATE)]
        ELSE streak

\* the rolling list: push, then keep the last 20
mutPushNoEviction(list, entry) == Append(list, entry)
PushAlternative(list, entry) ==
    LET pushed == Append(list, entry)
    IN  IF Len(pushed) > MaxAlternatives
        THEN SubSeq(pushed, Len(pushed) - MaxAlternatives + 1, Len(pushed))
        ELSE pushed

applyOverrideLearning(csp, context, hour) ==
    LET timed == AdjustBandWeight(csp, hour, 0 - LEARNING_RATE)
        load == IF context.cognitive_load > 66
                THEN [timed EXCEPT !.high_load_override_tendency =
                                       clamp(Or(@, 500) + LEARNING_RATE)]
                ELSE timed
        streak == [load EXCEPT !.consecutive_overrides = Or(@, 0) + 1,
                               !.consecutive_accepts = 0]
        conf == IF streak.consecutive_overrides >= 3
                THEN [streak EXCEPT !.suggestion_confidence =
                                        clamp(Or(@, 500) - LEARNING_RATE)]
                ELSE streak
    IN  IF context.chosen_alternative # ""
        THEN [conf EXCEPT !.preferred_alternatives =
                 PushAlternative(@, [original |-> context.original_items,
                                     chosen |-> context.chosen_alternative,
                                     time |-> hour,
                                     cognitive_load |-> context.cognitive_load])]
        ELSE conf

mutIgnoreRecalibratesAtFour(csp, context, hour) ==
    LET ignoreRate == (LEARNING_RATE * 3) \div 10
        timed == AdjustBandWeight(csp, hour, 0 - ignoreRate)
        streak == [timed EXCEPT !.consecutive_ignores = Or(@, 0) + 1]
    IN  IF streak.consecutive_ignores >= 4
        THEN [streak EXCEPT !.needs_recalibration = TRUE]
        ELSE streak

applyIgnoreLearning(csp, context, hour) ==
    LET ignoreRate == (LEARNING_RATE * 3) \div 10
        timed == AdjustBandWeight(csp, hour, 0 - ignoreRate)
        streak == [timed EXCEPT !.consecutive_ignores = Or(@, 0) + 1]
    IN  IF streak.consecutive_ignores >= 5
        THEN [streak EXCEPT !.needs_recalibration = TRUE]
        ELSE streak

\* updateCspFromFeedback between its read and its write: the vector it saves,
\* given the vector it read (NullVector for a row without one)
LearnedCsp(read, action, context, hour) ==
    LET csp == IF read = NullVector THEN getDefaultCsp ELSE read
        counted == [csp EXCEPT !.total_decisions = Or(@, 0) + 1]
        learned ==
            IF action = "accept"
            THEN applyAcceptLearning(
                     [counted EXCEPT !.total_accepts = Or(@, 0) + 1], context, hour)
            ELSE IF action = "override"
            THEN applyOverrideLearning(
                     [counted EXCEPT !.total_overrides = Or(@, 0) + 1], context, hour)
            ELSE IF action = "ignore"
            THEN applyIgnoreLearning(
                     [counted EXCEPT !.total_ignores = Or(@, 0) + 1], context, hour)
            ELSE counted
        rated == IF learned.total_decisions > 0
                 THEN [learned EXCEPT
                          !.accept_rate = Rate(learned.total_accepts, learned.total_decisions),
                          !.override_rate = Rate(learned.total_overrides, learned.total_decisions),
                          !.ignore_rate = Rate(learned.total_ignores, learned.total_decisions)]
                 ELSE learned
    IN  [rated EXCEPT !.last_learned_at = "now"]

\* updateCspCounters without its `ignore` branch
mutCountedCspNoIgnore(read, action) ==
    LET csp == IF read = NullVector THEN emptyCsp ELSE read
        counted == [csp EXCEPT !.total_decisions = Or(@, 0) + 1]
    IN  IF action = "accept"
        THEN [counted EXCEPT !.total_accepts = Or(@, 0) + 1]
        ELSE IF action = "override"
        THEN [counted EXCEPT !.total_overrides = Or(@, 0) + 1]
        ELSE counted

\* updateCspCounters counting the decision only when it is an accept
mutCountedCspAcceptsOnly(read, action) ==
    LET csp == IF read = NullVector THEN emptyCsp ELSE read
    IN  IF action = "accept"
        THEN [csp EXCEPT !.total_decisions = Or(@, 0) + 1,
                         !.total_accepts = Or(@, 0) + 1]
        ELSE csp

\* updateCspCounters of the feedback route between its read and its write
CountedCsp(read, action) ==
    LET csp == IF read = NullVector THEN emptyCsp ELSE read
        counted == [csp EXCEPT !.total_decisions = Or(@, 0) + 1]
        tallied ==
            IF action = "accept"
            THEN [counted EXCEPT !.total_accepts = Or(@, 0) + 1]
            ELSE IF action = "override"
            THEN [counted EXCEPT !.total_overrides = Or(@, 0) + 1]
            ELSE IF action = "ignore"
            THEN [counted EXCEPT !.total_ignores = Or(@, 0) + 1]
            ELSE counted
    IN  IF tallied.total_decisions > 0
        THEN [tallied EXCEPT
                 !.accept_rate = Rate(tallied.total_accepts, tallied.total_decisions),
                 !.override_rate = Rate(tallied.total_overrides, tallied.total_decisions)]
        ELSE tallied


-----------------------------------------------------------------------------
(* Inputs of the learning service *)

\* the hours of the wall clock a call can see: both ends of every band
LearnHours == {5, 6, 11, 12, 17}

NoContext == [card_items |-> <<>>, cognitive_load |-> Absent,
              chosen_alternative |-> "", original_items |-> ""]
FocusContext == [NoContext EXCEPT !.card_items = << <<"Focus", "on", "Report">> >>]
HighLoadContext == [NoContext EXCEPT !.cognitive_load = 80]
AlternativeContext == [NoContext EXCEPT !.cognitive_load = 40,
                                        !.chosen_alternative = "Walk",
                                        !.original_items = "Report"]
Contexts == {NoContext, FocusContext, HighLoadContext, AlternativeContext}

\* k more calls of the learning service with the same feedback at the same hour
RECURSIVE AfterCalls(_, _, _, _, _)
AfterCalls(csp, action, context, hour, k) ==
    IF k = 0 THEN csp
    ELSE LET next == LearnedCsp(csp, action, context, hour)
         IN  \* the test has TLC compute each vector before the call that follows it
             IF next.total_decisions > 0
             THEN AfterCalls(next, action, context, hour, k - 1)
             ELSE next

\* the vector of a long-lived profile: k evening overrides that each carried the
\* chosen alternative, then five morning accepts of a focus card
Veteran(k) ==
    AfterCalls(AfterCalls(initialCspVector("flexible", "short"),
                          "override", AlternativeContext, 20, k),
               "accept", FocusContext, 8, 5)

-----------------------------------------------------------------------------
(* SpecLearning: the learning service called once per feedback, the calls  *)
(* one after the other                                                     *)

Idle == [n \in 1..NumRequests |->
            [pc |-> "idle", via |-> "", action |-> "", hour |-> 0,
             read |-> NullVector, status |-> ""]]
NoPlan == {}
NoCall == [pc |-> "none"]

InitLearning ==
    /\ profile \in {NoProfile, ProfileRow(NullVector)}
               \cup {ProfileRow(Veteran(k)) : k \in {MaxAlternatives - 1, MaxAlternatives}}
    /\ feedback = {}
    /\ daily_plans = NoPlan
    /\ decisions = {}
    /\ requests = Idle
    /\ calls = 0
    /\ loadCall = NoCall
    /\ scoreCall = NoCall
    /\ cardsCall = NoCall
    /\ planCall = NoCall
    /\ interaction_events = {}

\* POST /profile with the onboarding answers work_style and break_preference
PostProfile(work_style, break_preference) ==
    /\ profile = NoProfile
    /\ profile' = ProfileRow(initialCspVector(work_style, break_preference))
    /\ UNCHANGED <<feedback, daily_plans, decisions, requests, calls,
                   loadCall, scoreCall, cardsCall, planCall, interaction_events>>

CreateProfile == \E ws \in WorkStyles, bp \in BreakPreferences : PostProfile(ws, bp)

\* updateCspFromFeedback(userId, action, context), read to write
UpdateCspFromFeedback ==
    /\ profile.exists
    /\ calls < MaxDecisions
    /\ calls' = calls + 1
    /\ \E action \in Actions, context \in Contexts, hour \in LearnHours :
           profile' = ProfileRow(LearnedCsp(profile.csp_vector, action, context, hour))
    /\ UNCHANGED <<feedback, daily_plans, decisions, requests,
                   loadCall, scoreCall, cardsCall, planCall, interaction_events>>

NextLearning == CreateProfile \/ UpdateCspFromFeedback

SpecLearning == InitLearning /\ [][NextLearning]_vars


-----------------------------------------------------------------------------
(* Claims on the learning service *)

WeightFields(csp) == << csp.morning_task_weight, csp.afternoon_task_weight,
                        csp.evening_task_weight, csp.high_effort_preference,
                        csp.suggestion_confidence, csp.high_load_override_tendency >>

HasVector == profile.exists /\ profile.csp_vector # NullVector

\* C1: after any sequence of updateCspFromFeedback calls, each of the six weight
\* fields the vector carries is within [0,1] and preferred_alternatives holds at
\* most 20 entries
C1_WeightsClamped ==
    HasVector =>
        /\ \A i \in 1..6 :
              LET w == WeightFields(profile.csp_vector)[i]
              IN  w = Absent \/ (0 <= w /\ w <= One)
        /\ Len(profile.csp_vector.preferred_alternatives) <= 20

\* a morning accept met the ceiling and an override with an alternative met a full list
C1_Witness ==
    /\ HasVector
    /\ calls >= 2
    /\ profile.csp_vector.morning_task_weight = One
    /\ profile.csp_vector.total_accepts >= 6
    /\ Len(profile.csp_vector.preferred_alternatives) = 20
    /\ profile.csp_vector.total_overrides >= 21


-----------------------------------------------------------------------------
(* SpecFeedback: feedback updates of one user that overlap.  Each handler  *)
(* awaits the store between its steps, so the steps of different handlers *)
(* interleave.  A store call either succeeds or resolves with an error.    *)

Handlers == 1..NumRequests

\* the hours of the wall clock a call of the learning service sees in this run
RaceHours == {8, 20}

\* req.body.action: the three actions and one the route does not allow
BodyActions == Actions \cup {"snooze"}

InitFeedback ==
    /\ profile = NoProfile
    /\ feedback = {}
    /\ daily_plans = NoPlan
    /\ decisions = {}
    /\ requests = Idle
    /\ calls = 0
    /\ loadCall = NoCall
    /\ scoreCall = NoCall
    /\ cardsCall = NoCall
    /\ planCall = NoCall
    /\ interaction_events = {}

\* handlers are taken in order of their number
CanStart(r) == /\ requests[r].pc = "idle"
               /\ IF r = 1 THEN TRUE ELSE requests[r - 1].pc # "idle"

\* the handler returns: its locals are gone, its answer stays
Finish(r, status) == [requests EXCEPT ![r].pc = "done", ![r].status = status,
                                       ![r].action = "", ![r].hour = 0,
                                       ![r].read = NullVector]

\* a row of table feedback, as far as the engine reads it
FeedbackRow(action, item_value, card_items, override_value) ==
    [action |-> action, item_value |-> item_value, card_items |-> card_items,
     override_value |-> override_value]

\* a feedback row with its key and the plan it refers to
PlanFeedback(id, plan_id, row) ==
    [id |-> id, plan_id |-> plan_id, action |-> row.action,
     item_value |-> row.item_value, card_items |-> row.card_items,
     override_value |-> row.override_value]

\* req.body.plan_id: the plan on the screen (0 is the plan stored before the
\* requests of the model)
BodyPlan == IF daily_plans # {} THEN (CHOOSE p \in daily_plans : TRUE).id ELSE 0

mutAllowedActionAny(action) == TRUE
\* ['accept', 'override', 'ignore'].includes(action)
AllowedAction(action) == action \in {"accept", "override", "ignore"}

\* POST /feedback up to the insert: validation, then the feedback row
PostFeedback(r) ==
    /\ CanStart(r)
    /\ calls' = calls + 1
    /\ \E action \in BodyActions, ok \in BOOLEAN :
          LET req == [pc |-> "inserted", via |-> "route", action |-> action,
                      hour |-> 0, read |-> NullVector, status |-> ""]
          IN  IF ~AllowedAction(action)
              THEN /\ requests' = [requests EXCEPT ![r] = [req EXCEPT !.pc = "done",
                                                                     !.status = "400"]]
                   /\ UNCHANGED feedback
              ELSE IF ok
              THEN /\ requests' = [requests EXCEPT ![r] = req]
                   /\ feedback' = feedback \cup
                                  {PlanFeedback(r, BodyPlan,
                                                FeedbackRow(action, <<>>, <<>>, <<>>))}
              ELSE /\ requests' = [requests EXCEPT ![r] = [req EXCEPT !.pc = "done",
                                                                     !.status = "500"]]
                   /\ UNCHANGED feedback
    /\ UNCHANGED <<profile, daily_plans, decisions, loadCall, scoreCall, cardsCall, planCall,
                   interaction_events>>

\* updateCspCounters: the select of csp_vector; without a row it returns, and the
\* route answers 201
CountersRead(r) ==
    /\ requests[r].pc = "inserted"
    /\ \E ok \in BOOLEAN :
          IF ok /\ profile.exists
          THEN requests' = [requests EXCEPT ![r].pc = "read",
                                            ![r].read = profile.csp_vector]
          ELSE requests' = Finish(r, "201")
    /\ UNCHANGED <<profile, feedback, daily_plans, decisions, calls,
                   loadCall, scoreCall, cardsCall, planCall, interaction_events>>

\* updateCspCounters: the counters, the rates and the update of the row, whose
\* outcome is not looked at; then the route answers 201
CountersWrite(r) ==
    /\ requests[r].pc = "read"
    /\ requests[r].via = "route"
    /\ \E ok \in BOOLEAN :
          IF ok /\ profile.exists
          THEN profile' = [profile EXCEPT !.csp_vector =
                                 CountedCsp(requests[r].read, requests[r].action)]
          ELSE UNCHANGED profile
    /\ requests' = Finish(r, "201")
    /\ UNCHANGED <<feedback, daily_plans, decisions, calls,
                   loadCall, scoreCall, cardsCall, planCall, interaction_events>>

\* a call updateCspFromFeedback(userId, action, context)
LearnStart(r) ==
    /\ CanStart(r)
    /\ calls' = calls + 1
    /\ \E action \in Actions, hour \in RaceHours :
          requests' = [requests EXCEPT ![r] =
                          [pc |-> "started", via |-> "service", action |-> action,
                           hour |-> hour, read |-> NullVector, status |-> ""]]
    /\ UNCHANGED <<profile, feedback, daily_plans, decisions,
                   loadCall, scoreCall, cardsCall, planCall, interaction_events>>

\* updateCspFromFeedback: the select of the row; fetchError or no row returns
LearnFetch(r) ==
    /\ requests[r].pc = "started"
    /\ \E ok \in BOOLEAN :
          IF ok /\ profile.exists
          THEN requests' = [requests EXCEPT ![r].pc = "read",
                                            ![r].read = profile.csp_vector]
          ELSE requests' = Finish(r, "undefined")
    /\ UNCHANGED <<profile, feedback, daily_plans, decisions, calls,
                   loadCall, scoreCall, cardsCall, planCall, interaction_events>>

\* updateCspFromFeedback: the learning, the rates and the update of the row;
\* updateError returns undefined, success returns the vector
LearnSave(r) ==
    /\ requests[r].pc = "read"
    /\ requests[r].via = "service"
    /\ \E ok \in BOOLEAN :
          IF ok /\ profile.exists
          THEN /\ profile' = [profile EXCEPT !.csp_vector =
                                  LearnedCsp(requests[r].read, requests[r].action,
                                             NoContext, requests[r].hour)]
               /\ requests' = Finish(r, "csp")
          ELSE /\ UNCHANGED profile
               /\ requests' = Finish(r, "undefined")
    /\ UNCHANGED <<feedback, daily_plans, decisions, calls,
                   loadCall, scoreCall, cardsCall, planCall, interaction_events>>

NextFeedback ==
    \/ PostProfile("structured", "long")
    \/ \E r \in Handlers : PostFeedback(r)
    \/ \E r \in Handlers : CountersRead(r)
    \/ \E r \in Handlers : CountersWrite(r)
    \/ \E r \in Handlers : LearnStart(r)
    \/ \E r \in Handlers : LearnFetch(r)
    \/ \E r \in Handlers : LearnSave(r)

SpecFeedback == InitFeedback /\ [][NextFeedback]_vars


-----------------------------------------------------------------------------
(* Claims on overlapping feedback updates *)

Counters(csp) == << csp.total_decisions, csp.total_accepts,
                    csp.total_overrides, csp.total_ignores >>

\* C2: after every feedback update, by the learning service or by the route's
\* updateCspCounters, the persisted vector has
\* total_decisions = total_accepts + total_overrides + total_ignores
C2_CountersSum ==
    HasVector =>
        profile.csp_vector.total_decisions =
            profile.csp_vector.total_accepts + profile.csp_vector.total_overrides
            + profile.csp_vector.total_ignores

\* three updates went through, one of each action, by the route and by the service
C2_Witness ==
    /\ HasVector
    /\ Counters(profile.csp_vector) = <<3, 1, 1, 1>>
    /\ \E r \in Handlers : requests[r].via = "route" /\ requests[r].status = "201"
    /\ \E r \in Handlers : requests[r].via = "service" /\ requests[r].status = "csp"

C4_CountersNeverDecrease ==
    [][(HasVector /\ profile'.exists) =>
          \A i \in 1..4 :
              Counters(profile'.csp_vector)[i] >= Counters(profile.csp_vector)[i]]_vars


-----------------------------------------------------------------------------
(* The cognitive-load estimator *)

\* how a call of the store ends: with data, with {data: null, error}, or rejected
StoreOutcomes == {"ok", "error", "throw"}

\* metadata.total_duration_ms of a session_end event, in ms; Absent without the field
SessionDurations == {Absent, 600000, 1530000, 3600000}

RECURSIVE SumDurations(_)
\* events.reduce((sum, e) => sum + (e.metadata?.total_duration_ms || 0), 0)
SumDurations(events) ==
    IF events = <<>> THEN 0
    ELSE Or(Head(events), 0) + SumDurations(Tail(events))

\* factor 1: Math.min(30, Math.round((decisionCount / 10) * 30))
DecisionsValue(decisionCount) == Min(30, Round(decisionCount * 30, 10))

\* factor 2: Math.min(25, Math.round((overrideRate / 0.5) * 25)), only with decisions
OverridesValue(decisionCount, overrideCount) ==
    IF decisionCount > 0
    THEN Min(25, Round(overrideCount * 2 * 25, decisionCount))
    ELSE 0

\* factor 3: minutes = Math.round(ms / 60000);
\* Math.min(20, Math.round(Math.max(0, (minutes - 15) / 45) * 20))
TimeOnSiteValue(totalTimeMs) ==
    LET totalMinutes == Round(totalTimeMs, 60000)
    IN  IF totalMinutes <= 15 THEN 0
        ELSE Min(20, Round((totalMinutes - 15) * 20, 45))

\* factor 4, by the band of the hour
TimeOfDayValue(hour) ==
    IF hour >= 6 /\ hour < 12 THEN Round((hour - 6) * 5, 6)
    ELSE IF hour >= 12 /\ hour < 17 THEN 10 + Round((hour - 12) * 5, 5)
    ELSE IF hour >= 17 /\ hour < 21 THEN 15 + Round((hour - 17) * 5, 4)
    ELSE 20 + Min(5, IF hour >= 21 THEN hour - 21 ELSE 5)

mutAutonomyLevelOffByOne(score) ==
    IF score < 33 THEN "manual" ELSE IF score < 66 THEN "assist" ELSE "auto"
AutonomyLevel(score) ==
    IF score <= 33 THEN "manual" ELSE IF score <= 66 THEN "assist" ELSE "auto"

\* calculateCognitiveLoad(userId) on what its two reads of today's history give:
\* feedbackRead/eventsRead say how each read ends, decisionCount and overrideCount
\* are the rows of the first, sessions the events of the second
calculateCognitiveLoad(feedbackRead, decisionCount, overrideCount, eventsRead, sessions, hour) ==
    IF feedbackRead = "throw" \/ eventsRead = "throw"
    THEN [score |-> 50, autonomyLevel |-> "assist", error |-> TRUE,
          timeOfDay |-> 0]
    ELSE LET count == IF feedbackRead = "ok" THEN decisionCount ELSE 0
             overrides == IF feedbackRead = "ok" THEN overrideCount ELSE 0
             totalTimeMs == IF eventsRead = "ok" THEN SumDurations(sessions) ELSE 0
             score == Min(100, DecisionsValue(count) + OverridesValue(count, overrides)
                               + TimeOnSiteValue(totalTimeMs) + TimeOfDayValue(hour))
         IN  [score |-> score, autonomyLevel |-> AutonomyLevel(score), error |-> FALSE,
              timeOfDay |-> TimeOfDayValue(hour)]

-----------------------------------------------------------------------------
(* SpecLoad: one call of calculateCognitiveLoad on today's activity *)

SessionLists == UNION {[1..n -> SessionDurations] : n \in 0..MaxSessions}

InitLoad ==
    /\ profile = NoProfile
    /\ feedback = {}
    /\ daily_plans = NoPlan
    /\ decisions = {}
    /\ requests = Idle
    /\ calls = 0
    /\ \E feedbackRead \in StoreOutcomes, eventsRead \in StoreOutcomes,
          decisionCount \in 0..MaxFeedbackToday, overrideCount \in 0..MaxFeedbackToday,
          sessions \in SessionLists, hour \in 0..23 :
          /\ overrideCount <= decisionCount
          \* a read that fails brings no rows
          /\ feedbackRead # "ok" => decisionCount = 0
          /\ eventsRead # "ok" => sessions = <<>>
          /\ loadCall = [pc |-> "called", feedbackRead |-> feedbackRead,
                         decisionCount |-> decisionCount, overrideCount |-> overrideCount,
                         eventsRead |-> eventsRead, sessions |-> sessions, hour |-> hour,
                         result |-> [score |-> 0, autonomyLevel |-> "", error |-> FALSE,
                                     timeOfDay |-> 0]]
    /\ scoreCall = NoCall
    /\ cardsCall = NoCall
    /\ planCall = NoCall
    /\ interaction_events = {}

CalculateCognitiveLoad ==
    /\ loadCall.pc = "called"
    /\ loadCall' = [loadCall EXCEPT
                       !.pc = "returned",
                       !.result = calculateCognitiveLoad(
                                      loadCall.feedbackRead, loadCall.decisionCount,
                                      loadCall.overrideCount, loadCall.eventsRead,
                                      loadCall.sessions, loadCall.hour)]
    /\ UNCHANGED <<profile, feedback, daily_plans, decisions, requests, calls,
                   scoreCall, cardsCall, planCall, interaction_events>>

NextLoad == CalculateCognitiveLoad

SpecLoad == InitLoad /\ [][NextLoad]_vars

\* C5: on every input and on the fallback path the score is an integer in [0,100]
\* and the level is manual iff score <= 33, assist iff 34..66, auto iff >= 67
C5_ScoreAndTier ==
    loadCall.pc = "returned" =>
        LET score == loadCall.result.score
            level == loadCall.result.autonomyLevel
        IN  /\ score \in 0..100
            /\ level \in {"manual", "assist", "auto"}
            /\ level = "manual" <=> score <= 33
            /\ level = "assist" <=> (34 <= score /\ score <= 66)
            /\ level = "auto" <=> score >= 67

\* a computed score on the edge of two levels: 66 is still assist
C5_Witness ==
    /\ loadCall.pc = "returned"
    /\ ~loadCall.result.error
    /\ loadCall.result.score = 66
    /\ loadCall.result.autonomyLevel = "assist"

\* C6: if either read of today's history fails, by throwing or by resolving with
\* an error and no data, the result is score 50 with level assist
C6_SafeDefaultOnFailure ==
    (loadCall.pc = "returned"
       /\ (loadCall.feedbackRead # "ok" \/ loadCall.eventsRead # "ok"))
    => (loadCall.result.score = 50 /\ loadCall.result.autonomyLevel = "assist")


-----------------------------------------------------------------------------
(* The decisions of a user and the recent feedback *)

\* a row of table decisions; texts are sequences of words, a null column is
\* Absent (numbers), <<>> (texts) or "" (enumerations)
Decision(title, type) ==
    [title |-> title, type |-> type, effort |-> Absent, preferred_time |-> Absent,
     meal_type |-> "", tags |-> {}, estimated_minutes |-> Absent,
     break_duration |-> Absent, frequency |-> "daily", score |-> Absent]

Report == [Decision(<<"Report">>, "task") EXCEPT !.effort = 5, !.preferred_time = 9,
                                                 !.tags = {"urgent"},
                                                 !.estimated_minutes = 90]
Thesis == [Decision(<<"Thesis">>, "task") EXCEPT !.effort = 4]
Email  == [Decision(<<"Email">>, "task") EXCEPT !.effort = 1, !.tags = {"quick"},
                                                !.estimated_minutes = 15]
Review == Decision(<<"Review">>, "task")
Lunch  == [Decision(<<"Lunch">>, "meal") EXCEPT !.meal_type = "lunch"]
Walk   == [Decision(<<"Walk">>, "break") EXCEPT !.break_duration = 15]
Stretch == Decision(<<"Stretch">>, "break")

RecentRows ==
    {FeedbackRow("override", <<"Focus", "on", "Thesis">>, <<>>, <<"Walk">>),
     FeedbackRow("ignore", <<>>, << <<"Thesis">>, <<"Lunch">> >>, <<>>),
     FeedbackRow("accept", <<"Report">>, <<>>, <<>>),
     FeedbackRow("override", <<"Thesis">>, <<>>, <<"Email">>)}

\* f.item_value?.includes(title) || f.context?.card_items?.includes(title):
\* a substring of the text, or an element of the array
Mentions(f, title) ==
    \/ (f.item_value # <<>> /\ Includes(f.item_value, title))
    \/ \E i \in DOMAIN f.card_items : f.card_items[i] = title

-----------------------------------------------------------------------------
(* The scorer; scores are in thousandths until the final rounding *)

TimeScore(decision, csp, currentHour) ==
    IF currentHour >= 6 /\ currentHour < 12
    THEN LET morningWeight == Or(csp.morning_task_weight, 500)
         IN  morningWeight * 30 + (IF morningWeight > 600 THEN 10 * One ELSE 0)
    ELSE IF currentHour >= 12 /\ currentHour < 17
    THEN Or(csp.afternoon_task_weight, 500) * 30
    ELSE Or(csp.evening_task_weight, 300) * 30
         - (IF decision.effort >= 4 THEN 15 * One ELSE 0)

EffortScore(decision, csp) ==
    IF decision.effort >= 4
    THEN LET highEffortPref == Or(csp.high_effort_preference, 500)
         IN  highEffortPref * 20 - (IF highEffortPref < 400 THEN 10 * One ELSE 0)
    ELSE IF decision.effort >= 1 /\ decision.effort <= 2
    THEN Or(csp.low_effort_preference, 500) * 20
    ELSE 0

PreferredTimeScore(decision, currentHour) ==
    IF decision.preferred_time = Absent THEN 0
    ELSE LET diff == currentHour - decision.preferred_time
             hourDiff == IF diff < 0 THEN 0 - diff ELSE diff
         IN  IF hourDiff <= 1 THEN 35 * One
             ELSE IF hourDiff <= 2 THEN 25 * One
             ELSE IF hourDiff <= 3 THEN 10 * One
             ELSE 0

MealTimingScore(decision, currentHour) ==
    IF decision.type = "meal" /\ decision.meal_type # ""
    THEN IF decision.meal_type = "breakfast" /\ currentHour >= 6 /\ currentHour < 10
         THEN 35 * One
         ELSE IF decision.meal_type = "lunch" /\ currentHour >= 11 /\ currentHour < 14
         THEN 35 * One
         ELSE IF decision.meal_type = "dinner" /\ currentHour >= 17 /\ currentHour < 21
         THEN 35 * One
         ELSE IF decision.meal_type = "snack" THEN 10 * One
         ELSE 0
    ELSE 0

FeedbackScore(decision, recentFeedback) ==
    LET \* decisionFeedback.filter(f => f.action === action).length
        Recent(action) ==
            Cardinality({i \in DOMAIN recentFeedback :
                            /\ recentFeedback[i].action = action
                            /\ Mentions(recentFeedback[i], decision.title)})
        chosenAsAlternative ==
            Cardinality({i \in DOMAIN recentFeedback :
                            recentFeedback[i].override_value = decision.title})
    IN  (Recent("accept") * 8 - Recent("override") * 12 - Recent("ignore") * 5
         + chosenAsAlternative * 15) * One

ConfidenceScore(decision, csp) ==
    IF Or(csp.suggestion_confidence, 500) < 300 /\ decision.preferred_time # Absent
    THEN 10 * One
    ELSE 0

TagScore(decision) ==
    ((IF "urgent" \in decision.tags THEN 20 ELSE 0)
     + (IF "important" \in decision.tags THEN 15 ELSE 0)
     + (IF "quick" \in decision.tags THEN 5 ELSE 0)) * One

\* the local variable score of scoreDecision before the return statement
RawScore(decision, csp, currentHour, recentFeedback) ==
    50 * One + TimeScore(decision, csp, currentHour) + EffortScore(decision, csp)
    + PreferredTimeScore(decision, currentHour) + MealTimingScore(decision, currentHour)
    + FeedbackScore(decision, recentFeedback) + ConfidenceScore(decision, csp)
    + TagScore(decision)

mutScoreDecisionNoFloor(decision, csp, currentHour, recentFeedback) ==
    Round(RawScore(decision, csp, currentHour, recentFeedback), One)
\* return Math.max(0, Math.round(score))
scoreDecision(decision, csp, currentHour, recentFeedback) ==
    Max(0, Round(RawScore(decision, csp, currentHour, recentFeedback), One))

-----------------------------------------------------------------------------
(* SpecScore: one call of scoreDecision *)

\* vectors the learning leaves behind: six evening overrides, nine evening ignores
Overruled == AfterCalls(initialCspVector("deep_work", "long"),
                        "override", AlternativeContext, 20, 6)
Unheeded == AfterCalls(initialCspVector("structured", "short"),
                       "ignore", NoContext, 20, 9)

ScoreVectors == {initialCspVector("deep_work", "short"),
                 initialCspVector("flexible", "long"),
                 Veteran(MaxAlternatives), Overruled, Unheeded}
ScoreDecisions == {Report, Thesis, Email, Review, Lunch, Walk}
ScoreHours == {8, 13, 20}
RecentLists == UNION {[1..n -> RecentRows] : n \in 0..MaxRecentFeedback}

InitScore ==
    /\ profile = NoProfile
    /\ feedback = {}
    /\ daily_plans = NoPlan
    /\ decisions = {}
    /\ requests = Idle
    /\ calls = 0
    /\ loadCall = NoCall
    /\ \E decision \in ScoreDecisions, csp \in ScoreVectors, currentHour \in ScoreHours,
          recentFeedback \in RecentLists :
          scoreCall = [pc |-> "called", decision |-> decision, csp |-> csp,
                       currentHour |-> currentHour, recentFeedback |-> recentFeedback,
                       score |-> 0]
    /\ cardsCall = NoCall
    /\ planCall = NoCall
    /\ interaction_events = {}

ScoreDecision ==
    /\ scoreCall.pc = "called"
    /\ scoreCall' = [scoreCall EXCEPT
                        !.pc = "returned",
                        !.score = scoreDecision(scoreCall.decision, scoreCall.csp,
                                                scoreCall.currentHour,
                                                scoreCall.recentFeedback)]
    /\ UNCHANGED <<profile, feedback, daily_plans, decisions, requests, calls,
                   loadCall, cardsCall, planCall, interaction_events>>

NextScore == ScoreDecision

SpecScore == InitScore /\ [][NextScore]_vars

\* C7: the score scoreDecision returns is an integer >= 0, also when the
\* penalties outweigh the base and the bonuses
C7_ScoreNeverNegative ==
    scoreCall.pc = "returned" => scoreCall.score \in Nat

\* the penalties of an evening, high-effort, often overridden task bring the
\* score below zero before the floor, and the call returns 0
C7_Witness ==
    /\ scoreCall.pc = "returned"
    /\ RawScore(scoreCall.decision, scoreCall.csp, scoreCall.currentHour,
                scoreCall.recentFeedback) < 0
    /\ scoreCall.score = 0


-----------------------------------------------------------------------------
(* Ranking and the compressed cards; the texts of a card (title, emoji, why) *)
(* are left out, its items, duration and priority are kept                  *)

OfType(rows, type) == {d \in rows : d.type = type}

\* applicableDecisions.map(score).sort((a, b) => b.score - a.score), then the
\* filter by type: every order of the rows that is descending in the score
\* (the store returns the rows in no particular order, the sort keeps ties)
Ranked(rows, csp, currentHour, recentFeedback) ==
    LET n == Cardinality(rows)
        Score(d) == scoreDecision(d, csp, currentHour, recentFeedback)
        Orders == {f \in [1..n -> rows] :
                      /\ \A i, j \in 1..n : i # j => f[i] # f[j]
                      /\ \A i, j \in 1..n : i < j => Score(f[i]) >= Score(f[j])}
    IN  {[i \in 1..n |-> [f[i] EXCEPT !.score = Score(f[i])]] : f \in Orders}

MaxCards(csp, autonomyLevel) ==
    IF autonomyLevel = "auto" THEN 2
    ELSE IF autonomyLevel = "assist"
    THEN (IF Or(csp.suggestion_confidence, 500) > 600 THEN 3 ELSE 4)
    ELSE 4

mutHasRoomAlways(cards, maxCards) == TRUE
\* cards.length < maxCards
HasRoom(cards, maxCards) == Len(cards) < maxCards

Item(type, decision) == [type |-> type, decision |-> decision]

CardOf(id, items, duration, priority, autonomyLevel) ==
    [id |-> id, items |-> items, duration |-> duration, priority |-> priority,
     autonomy_level |-> autonomyLevel]

\* card 1, pushed without a look at maxCards
PrimaryCard(tasks, breaks, csp, autonomyLevel) ==
    IF tasks = <<>> THEN <<>>
    ELSE LET focusDuration == Or(csp.focus_duration_preference, 50)
             withBreak == breaks # <<>> /\ Or(csp.break_frequency_weight, 500) > 300
             items == <<Item("task", tasks[1])>>
                      \o (IF withBreak THEN <<Item("break", breaks[1])>> ELSE <<>>)
             duration == Or(tasks[1].estimated_minutes, focusDuration)
                         + (IF withBreak THEN Or(breaks[1].break_duration, 10) ELSE 0)
         IN  <<CardOf("card_1", items, duration, "high", autonomyLevel)>>

\* in thousandths
getMealRelevance(meal, currentHour) ==
    IF meal.meal_type = "breakfast"
    THEN (IF currentHour >= 6 /\ currentHour < 10 THEN One
          ELSE IF currentHour >= 10 /\ currentHour < 11 THEN 500 ELSE 200)
    ELSE IF meal.meal_type = "lunch"
    THEN (IF currentHour >= 11 /\ currentHour < 14 THEN One
          ELSE IF currentHour >= 14 /\ currentHour < 15 THEN 500 ELSE 200)
    ELSE IF meal.meal_type = "dinner"
    THEN (IF currentHour >= 17 /\ currentHour < 21 THEN One
          ELSE IF currentHour >= 16 /\ currentHour < 17 THEN 500 ELSE 200)
    ELSE IF meal.meal_type = "snack" THEN 600
    ELSE 500

MealCard(cards, meals, currentHour, autonomyLevel, maxCards) ==
    IF meals # <<>> /\ HasRoom(cards, maxCards)
       /\ getMealRelevance(meals[1], currentHour) > 500
    THEN <<CardOf("card_2", <<Item("meal", meals[1])>>, 30, "medium", autonomyLevel)>>
    ELSE <<>>

SecondaryCard(cards, tasks, breaks, csp, autonomyLevel, maxCards) ==
    IF Len(tasks) >= 2 /\ HasRoom(cards, maxCards)
    THEN LET focusDuration == Or(csp.focus_duration_preference, 50)
             secondaryBreak == IF Len(breaks) >= 2 THEN breaks[2] ELSE breaks[1]
             withBreak == /\ breaks # <<>>
                          /\ autonomyLevel # "auto"
                          /\ Or(csp.break_frequency_weight, 500) > 300
             items == <<Item("task", tasks[2])>>
                      \o (IF withBreak THEN <<Item("break", secondaryBreak)>> ELSE <<>>)
             duration == Or(tasks[2].estimated_minutes, focusDuration)
                         + (IF withBreak THEN Or(secondaryBreak.break_duration, 10) ELSE 0)
         IN  <<CardOf("card_3", items, duration, "medium", autonomyLevel)>>
    ELSE <<>>

\* tasks.find(t => t.effort && t.effort <= 2) || tasks[2], as a list of 0 or 1 task
LightTask(tasks) ==
    LET light == {i \in DOMAIN tasks : tasks[i].effort >= 1 /\ tasks[i].effort <= 2}
    IN  IF light # {}
        THEN <<tasks[CHOOSE i \in light : \A j \in light : i <= j]>>
        ELSE IF Len(tasks) >= 3 THEN <<tasks[3]>> ELSE <<>>

ExtraCard(cards, tasks, currentHour, autonomyLevel, maxCards) ==
    IF HasRoom(cards, maxCards) /\ autonomyLevel = "manual"
    THEN IF currentHour >= 18
         THEN (IF LightTask(tasks) # <<>>
               THEN <<CardOf("card_4", <<Item("task", LightTask(tasks)[1])>>,
                             Or(LightTask(tasks)[1].estimated_minutes, 20),
                             "low", autonomyLevel)>>
               ELSE <<>>)
         ELSE (IF Len(tasks) > 2
               THEN <<CardOf("card_4", <<Item("task", tasks[3])>>,
                             Or(tasks[3].estimated_minutes, 30), "low", autonomyLevel)>>
               ELSE <<>>)
    ELSE <<>>

generateCompressedCards(tasks, meals, breaks, csp, currentHour, autonomyLevel) ==
    LET maxCards == MaxCards(csp, autonomyLevel)
        one == PrimaryCard(tasks, breaks, csp, autonomyLevel)
        two == one \o MealCard(one, meals, currentHour, autonomyLevel, maxCards)
        three == two \o SecondaryCard(two, tasks, breaks, csp, autonomyLevel, maxCards)
    IN  three \o ExtraCard(three, tasks, currentHour, autonomyLevel, maxCards)

-----------------------------------------------------------------------------
(* SpecCards: the active rows of a user are ranked and the cards are built *)

\* five morning accepts of a focus card: the confidence has grown to 0.8
Trusted == AfterCalls(initialCspVector("deep_work", "short"),
                      "accept", FocusContext, 8, 5)

\* the learning leaves break_frequency_weight alone; the cards are a function of
\* any vector of the data model, whose weights range over [0,1]
BreakWeights == {0, 200, 300, One}
Sparing(w) == [initialCspVector("structured", "short") EXCEPT !.break_frequency_weight = w]

CardVectors == {initialCspVector("deep_work", "short"),
                initialCspVector("flexible", "long"), Trusted, Overruled}
               \cup {Sparing(w) : w \in BreakWeights}
CardDecisions == {Report, Thesis, Email, Review, Lunch, Walk, Stretch}
CardHours == {8, 13, 20}
CardFeedback == {<<>>, <<FeedbackRow("override", <<"Thesis">>, <<>>, <<"Email">>),
                         FeedbackRow("accept", <<"Report">>, <<>>, <<>>)>>}
AutonomyLevels == {"manual", "assist", "auto"}

InitCards ==
    /\ profile = NoProfile
    /\ feedback = {}
    /\ daily_plans = NoPlan
    /\ decisions \in SUBSET CardDecisions
    /\ requests = Idle
    /\ calls = 0
    /\ loadCall = NoCall
    /\ scoreCall = NoCall
    /\ \E csp \in CardVectors, currentHour \in CardHours,
          recentFeedback \in CardFeedback, autonomyLevel \in AutonomyLevels :
       \E tasks \in Ranked(OfType(decisions, "task"), csp, currentHour, recentFeedback),
          meals \in Ranked(OfType(decisions, "meal"), csp, currentHour, recentFeedback),
          breaks \in Ranked(OfType(decisions, "break"), csp, currentHour, recentFeedback) :
          cardsCall = [pc |-> "called", tasks |-> tasks, meals |-> meals,
                       breaks |-> breaks, csp |-> csp, currentHour |-> currentHour,
                       autonomyLevel |-> autonomyLevel, cards |-> <<>>]
    /\ planCall = NoCall
    /\ interaction_events = {}

GenerateCompressedCards ==
    /\ cardsCall.pc = "called"
    /\ cardsCall' = [cardsCall EXCEPT
                        !.pc = "returned",
                        !.cards = generateCompressedCards(
                                      cardsCall.tasks, cardsCall.meals, cardsCall.breaks,
                                      cardsCall.csp, cardsCall.currentHour,
                                      cardsCall.autonomyLevel)]
    /\ UNCHANGED <<profile, feedback, daily_plans, decisions, requests, calls,
                   loadCall, scoreCall, planCall, interaction_events>>

NextCards == GenerateCompressedCards

SpecCards == InitCards /\ [][NextCards]_vars

\* C9: generateCompressedCards returns at most max_cards cards: 2 for tier auto,
\* 3 for tier assist with suggestion_confidence > 0.6, 4 for assist otherwise
\* and 4 for manual
C9_AtMostMaxCards ==
    cardsCall.pc = "returned" =>
        Len(cardsCall.cards) <=
            (IF cardsCall.autonomyLevel = "auto" THEN 2
             ELSE IF cardsCall.autonomyLevel = "assist"
                     /\ cardsCall.csp.suggestion_confidence > 600 THEN 3
             ELSE 4)

\* tier auto with a task, a meal in its window and a second task: the second
\* task is left out, two cards are returned
C9_Witness ==
    /\ cardsCall.pc = "returned"
    /\ cardsCall.autonomyLevel = "auto"
    /\ Len(cardsCall.tasks) >= 2
    /\ cardsCall.meals # <<>>
    /\ Len(cardsCall.cards) = 2
    /\ cardsCall.cards[2].id = "card_2"


-----------------------------------------------------------------------------
(* The decision engine. The store client resolves every call with           *)
(* {data, error}; a read that fails hands the engine data = null            *)

ReadOutcomes == {"ok", "error"}

\* getDefaultCsp of the decision engine
engineDefaultCsp ==
    [emptyCsp EXCEPT !.morning_task_weight = 500, !.afternoon_task_weight = 500,
                     !.evening_task_weight = 300, !.high_effort_preference = 500,
                     !.low_effort_preference = 500, !.break_frequency_weight = 500,
                     !.focus_duration_preference = 50, !.suggestion_confidence = 500,
                     !.accept_rate = [num |-> 0, den |-> 1], !.total_decisions = 0]

\* the frequency filter; dayOfWeek is Date.getDay(), 0 = Sunday
Applicable(d, dayOfWeek) ==
    \/ d.frequency = "daily"
    \/ (d.frequency = "weekdays" /\ dayOfWeek >= 1 /\ dayOfWeek <= 5)
    \/ (d.frequency = "weekends" /\ (dayOfWeek = 0 \/ dayOfWeek = 6))
    \/ d.frequency = "weekly"

RECURSIVE RecentOf(_)
\* .order('created_at', { ascending: false }): the newest row first
RecentOf(rows) ==
    IF rows = {} THEN <<>>
    ELSE LET newest == CHOOSE f \in rows : \A g \in rows : g.id <= f.id
         IN  <<newest>> \o RecentOf(rows \ {newest})

NoPlanData == [generated |-> FALSE, cards |-> <<>>, message |-> "",
               cognitiveLoad |-> 0, autonomyLevel |-> ""]

\* generateDailyPlan(userId): the results it can return, one per order that the
\* ranking can give to rows of equal score
generateDailyPlan(loadData, profileRead, decisionsRead, feedbackRead, currentHour, dayOfWeek) ==
    LET csp == IF profileRead = "ok" /\ profile.exists THEN profile.csp_vector
               ELSE engineDefaultCsp
        rows == IF decisionsRead = "ok" THEN decisions ELSE {}
        recentFeedback == IF feedbackRead = "ok" THEN RecentOf(feedback) ELSE <<>>
        applicable == {d \in rows : Applicable(d, dayOfWeek)}
    IN  IF rows = {}
        THEN {[generated |-> TRUE, cards |-> <<>>, message |-> "No active decisions found",
               cognitiveLoad |-> loadData.score,
               autonomyLevel |-> loadData.autonomyLevel]}
        ELSE {[generated |-> TRUE,
               cards |-> generateCompressedCards(tasks, meals, breaks, csp, currentHour,
                                                 loadData.autonomyLevel),
               message |-> "",
               cognitiveLoad |-> loadData.score,
               autonomyLevel |-> loadData.autonomyLevel] :
                  tasks \in Ranked(OfType(applicable, "task"), csp, currentHour,
                                   recentFeedback),
                  meals \in Ranked(OfType(applicable, "meal"), csp, currentHour,
                                   recentFeedback),
                  breaks \in Ranked(OfType(applicable, "break"), csp, currentHour,
                                    recentFeedback)}

-----------------------------------------------------------------------------
(* SpecPlan: POST /plan/generate, several requests of one user on one day *)

PlanHandlers == 1..NumPlanRequests

PlanIdle == [pc |-> "idle", force |-> FALSE, existing |-> Absent,
             planData |-> NoPlanData, status |-> "", message |-> "", plan |-> Absent]

\* a row of daily_plans; id 0 is a plan stored before the requests of the model
PlanRow(id, planData) ==
    [id |-> id, cards |-> planData.cards,
     cognitive_load |-> planData.cognitiveLoad,
     autonomy_level |-> planData.autonomyLevel, accepted |-> FALSE]

OldPlan ==
    PlanRow(0, [cards |-> <<CardOf("card_1", <<Item("task", Report)>>, 90, "high",
                                   "assist")>>,
                cognitiveLoad |-> 40, autonomyLevel |-> "assist"])

OldFeedback ==
    {PlanFeedback(1, 0, FeedbackRow("accept", <<"Report">>, <<>>, <<>>)),
     PlanFeedback(2, 0, FeedbackRow("override", <<"Thesis">>, <<>>, <<"Email">>))}

Chores == [Decision(<<"Chores">>, "task") EXCEPT !.frequency = "weekends"]

PlanDecisionSets == {{}, {Walk}, {Lunch}, {Chores}, {Report, Thesis, Lunch, Walk}}
PlanProfiles == {NoProfile, ProfileRow(Trusted)}
\* the hour and the day of the week (1 = Monday, 6 = Saturday) of the requests
PlanClocks == {<<13, 1>>, <<20, 1>>, <<13, 6>>}
PlanSessions == {<<3600000>>}

InitPlan ==
    /\ profile \in PlanProfiles
    /\ \/ daily_plans = NoPlan /\ feedback = {}
       \/ daily_plans = {OldPlan} /\ feedback \in {{}, OldFeedback}
    /\ decisions \in PlanDecisionSets
    /\ requests = Idle
    /\ calls = 0
    /\ loadCall = NoCall
    /\ scoreCall = NoCall
    /\ cardsCall = NoCall
    /\ \E clock \in PlanClocks, sessions \in PlanSessions :
          planCall = [currentHour |-> clock[1], dayOfWeek |-> clock[2],
                      sessions |-> sessions,
                      handlers |-> [r \in PlanHandlers |-> PlanIdle]]
    /\ interaction_events = {}

\* the response is sent, the locals of the handler are gone
PlanRespond(r, status, message, plan) ==
    planCall' = [planCall EXCEPT !.handlers[r] =
                    [PlanIdle EXCEPT !.pc = "done", !.status = status,
                                     !.message = message, !.plan = plan]]

\* the requests are numbered in the order of their arrival
PlanCanStart(r) ==
    /\ planCall.handlers[r].pc = "idle"
    /\ IF r = 1 THEN TRUE ELSE planCall.handlers[r - 1].pc # "idle"

\* .single(): the id of the one row, null when there is none or more than one
Single(rows) == IF Cardinality(rows) = 1 THEN (CHOOSE p \in rows : TRUE).id ELSE Absent

\* the request arrives and reads today's plan
PlanStart(r) ==
    /\ PlanCanStart(r)
    /\ \E force \in BOOLEAN, read \in ReadOutcomes :
          LET existingPlan == IF read = "ok" THEN Single(daily_plans) ELSE Absent
          IN  IF existingPlan # Absent /\ ~force
              THEN PlanRespond(r, "200", "Plan already exists for today", existingPlan)
              ELSE planCall' = [planCall EXCEPT
                                   !.handlers[r].force = force,
                                   !.handlers[r].existing = existingPlan,
                                   !.handlers[r].pc = IF existingPlan # Absent
                                                      THEN "delete" ELSE "generate"]
    /\ UNCHANGED <<profile, feedback, daily_plans, decisions, requests, calls,
                   loadCall, scoreCall, cardsCall, interaction_events>>

\* force: the plan that was read is deleted, its feedback rows go with it
\* (ON DELETE CASCADE); the result of the call is not looked at
PlanDelete(r) ==
    /\ planCall.handlers[r].pc = "delete"
    /\ \E outcome \in ReadOutcomes :
          IF outcome = "ok"
          THEN /\ daily_plans' = {p \in daily_plans :
                                     p.id # planCall.handlers[r].existing}
               /\ feedback' = {f \in feedback :
                                  f.plan_id # planCall.handlers[r].existing}
          ELSE UNCHANGED <<daily_plans, feedback>>
    /\ planCall' = [planCall EXCEPT !.handlers[r].pc = "generate",
                                    !.handlers[r].existing = Absent]
    /\ UNCHANGED <<profile, decisions, requests, calls, loadCall, scoreCall, cardsCall,
                   interaction_events>>

mutNoCardsNever(planData) == FALSE
\* planData.cards.length === 0
NoCards(planData) == planData.cards = <<>>

\* calculateCognitiveLoad on the feedback rows in the store, all of them of today
TodayLoad(todayRead) ==
    calculateCognitiveLoad(todayRead, Cardinality(feedback),
                           Cardinality({f \in feedback : f.action = "override"}),
                           "ok", planCall.sessions, planCall.currentHour)

\* generateDailyPlan runs; without cards the request ends here
PlanGenerate(r) ==
    /\ planCall.handlers[r].pc = "generate"
    /\ \E todayRead \in StoreOutcomes, profileRead \in ReadOutcomes,
          decisionsRead \in ReadOutcomes, feedbackRead \in ReadOutcomes :
          LET loadData == TodayLoad(todayRead)
          IN  \E planData \in generateDailyPlan(loadData, profileRead, decisionsRead,
                                                feedbackRead, planCall.currentHour,
                                                planCall.dayOfWeek) :
                 IF NoCards(planData)
                 THEN planCall' = [planCall EXCEPT !.handlers[r] =
                                      [PlanIdle EXCEPT
                                          !.pc = "done",
                                          !.planData = planData,
                                          !.status = "200",
                                          !.message =
                                              IF planData.message # ""
                                              THEN planData.message
                                              ELSE "No plan generated"]]
                 ELSE planCall' = [planCall EXCEPT !.handlers[r].pc = "store",
                                                   !.handlers[r].planData = planData]
    /\ UNCHANGED <<profile, feedback, daily_plans, decisions, requests, calls,
                   loadCall, scoreCall, cardsCall, interaction_events>>

mutUniqueNever(rows) == FALSE
\* UNIQUE(user_id, plan_date): a row of the user for the date is already there
UniqueViolation(rows) == rows # {}

\* the plan is inserted; UNIQUE(user_id, plan_date) refuses a second row
PlanStore(r) ==
    /\ planCall.handlers[r].pc = "store"
    /\ \E outcome \in ReadOutcomes :
          IF outcome = "ok" /\ ~UniqueViolation(daily_plans)
          THEN /\ daily_plans' = daily_plans
                                    \cup {PlanRow(r, planCall.handlers[r].planData)}
               /\ PlanRespond(r, "201",
                              IF planCall.handlers[r].force
                              THEN "Plan regenerated successfully"
                              ELSE "Plan generated successfully", r)
          ELSE /\ UNCHANGED daily_plans
               /\ PlanRespond(r, "500", "Failed to generate plan", Absent)
    /\ UNCHANGED <<profile, feedback, decisions, requests, calls,
                   loadCall, scoreCall, cardsCall, interaction_events>>

NextPlan == \E r \in PlanHandlers :
                PlanStart(r) \/ PlanDelete(r) \/ PlanGenerate(r) \/ PlanStore(r)

SpecPlan == InitPlan /\ [][NextPlan]_vars

\* C10: for a user without active decisions, plan generation returns no card and
\* a non-empty message, the request ends without an error, and no request
\* stores a plan for the day
C10_NoCandidatesNoPlan ==
    decisions = {} =>
        /\ \A r \in PlanHandlers :
              /\ planCall.handlers[r].pc # "store"
              /\ planCall.handlers[r].status # "500"
              /\ planCall.handlers[r].planData.generated =>
                    /\ planCall.handlers[r].planData.cards = <<>>
                    /\ planCall.handlers[r].planData.message # ""
                    /\ planCall.handlers[r].pc = "done"
                    /\ planCall.handlers[r].status = "200"
                    /\ planCall.handlers[r].plan = Absent
        /\ \A p \in daily_plans : p.id = 0

\* a forced request of a user without active decisions has deleted the plan of
\* the day and run the engine
C10_Witness ==
    /\ decisions = {}
    /\ \E r \in PlanHandlers :
          /\ planCall.handlers[r].pc = "done"
          /\ planCall.handlers[r].planData.generated
          /\ planCall.handlers[r].message = "No active decisions found"
    /\ daily_plans = NoPlan
    /\ feedback = {}
    /\ \E r \in PlanHandlers : planCall.handlers[r].message = "Plan already exists for today"


-----------------------------------------------------------------------------
(* SpecStreaks: the learning service called a few times in a row on a      *)
(* profile that has learned before; the last call is kept with the vector  *)
(* it read                                                                 *)

StreakHours == {8, 13, 20}

\* the vector after k calls with the same action in the same band
Seasoned(action, hour, k) ==
    AfterCalls(initialCspVector("structured", "short"), action, NoContext, hour, k)

InitStreaks ==
    /\ \E action \in Actions, hour \in StreakHours, k \in 0..MaxSeason :
          profile = ProfileRow(Seasoned(action, hour, k))
    /\ feedback = {}
    /\ daily_plans = NoPlan
    /\ decisions = {}
    /\ requests = Idle
    /\ calls = 0
    /\ loadCall = NoCall
    /\ scoreCall = NoCall
    /\ cardsCall = NoCall
    /\ planCall = NoCall
    /\ interaction_events = {}

\* updateCspFromFeedback(userId, action), read to write
LearnInARow ==
    /\ calls < MaxStreak
    /\ calls' = calls + 1
    /\ \E action \in Actions, hour \in StreakHours :
          /\ profile' = ProfileRow(LearnedCsp(profile.csp_vector, action, NoContext, hour))
          /\ requests' = [requests EXCEPT ![1] =
                             [pc |-> "done", via |-> "service", action |-> action,
                              hour |-> hour, read |-> profile.csp_vector,
                              status |-> "csp"]]
    /\ UNCHANGED <<feedback, daily_plans, decisions, loadCall, scoreCall, cardsCall,
                   planCall, interaction_events>>

NextStreaks == LearnInARow

SpecStreaks == InitStreaks /\ [][NextStreaks]_vars

\* the last call of the streak, the vector it read and the vector it wrote
LastCall == requests[1]
Before == requests[1].read
After == profile.csp_vector

\* C11: an accept adds one to consecutive_accepts; the first two accepts of a
\* streak leave suggestion_confidence = c as it is and the third sets it to
\* min(1, c + 0.1), for every prior c in [0,1]
C11_ThirdAcceptRaisesConfidence ==
    (/\ LastCall.pc = "done"
     /\ LastCall.action = "accept"
     /\ Before.suggestion_confidence # Absent
     /\ Before.consecutive_accepts \in {0, 1, 2})
    => /\ After.consecutive_accepts = Before.consecutive_accepts + 1
       /\ After.suggestion_confidence =
             IF Before.consecutive_accepts = 2
             THEN Min(One, Before.suggestion_confidence + LEARNING_RATE)
             ELSE Before.suggestion_confidence


-----------------------------------------------------------------------------
(* Claims on the feedback route *)

\* C12: a POST /feedback request answers 201 only when the counters of the vector
\* were updated together with the stored row, and a request that fails leaves the
\* feedback table and the vector as they were: the step in which a handler of the
\* route answers 201 is a step that writes the vector, and a step that answers
\* with an error writes nothing
C12_FeedbackAtomic ==
    [][\A r \in Handlers :
          /\ (/\ requests[r].via = "route"
              /\ requests[r].pc # "done"
              /\ requests'[r].pc = "done"
              /\ requests'[r].status = "201")
             => (profile'.exists /\ profile' # profile)
          /\ (/\ requests[r].pc = "idle"
              /\ requests'[r].status \in {"400", "500"})
             => (feedback' = feedback /\ profile' = profile)]_vars


-----------------------------------------------------------------------------
(* Claims on plan generation *)

\* what generateDailyPlan can return when its read of the profile succeeds
LearnedResults ==
    UNION {generateDailyPlan(TodayLoad(todayRead), "ok", decisionsRead, feedbackRead,
                             planCall.currentHour, planCall.dayOfWeek) :
              todayRead \in StoreOutcomes, decisionsRead \in ReadOutcomes,
              feedbackRead \in ReadOutcomes}

\* C13: plan generation does not go on with the default vector in place of a
\* stored vector it could not read: every result the engine hands to the route
\* is one that the stored vector of the user gives
C13_NoFabricatedVector ==
    [][\A r \in PlanHandlers :
          (planCall.handlers[r].pc = "generate"
             /\ planCall'.handlers[r].planData.generated)
          => planCall'.handlers[r].planData \in LearnedResults]_vars


\* C14: a submission whose action is not accept, override or ignore is answered
\* 400 before any write: its handler never stores a feedback row and the step
\* that rejects it leaves the feedback table and the vector as they were
C14_InvalidActionRejected ==
    /\ [](\A r \in Handlers :
             (requests[r].via = "route" /\ requests[r].action \notin Actions \cup {""})
             => /\ requests[r].status = "400"
                /\ \A f \in feedback : f.id # r)
    /\ [][\A r \in Handlers :
             (requests[r].status # "400" /\ requests'[r].status = "400")
             => (feedback' = feedback /\ profile' = profile)]_vars

\* a rejected submission next to one that was stored and counted
C14_Witness ==
    /\ \E r \in Handlers : requests[r].status = "400" /\ requests[r].action = "snooze"
    /\ \E r \in Handlers : requests[r].via = "route" /\ requests[r].status = "201"
    /\ HasVector
    /\ profile.csp_vector.total_decisions = 1
    /\ Cardinality(feedback) = 1


\* C15: stored feedback rows only grow: no step of plan generation, forced
\* regeneration included, removes a feedback row
C15_FeedbackOnlyGrows == [][feedback \subseteq feedback']_vars


-----------------------------------------------------------------------------
(* SpecRoutes: the routes of one user side by side.  A feedback submission *)
(* and a plan generation await the store between their steps; the other    *)
(* routes make one store call each.                                         *)

MaxEvents == 1

\* req.body of PUT /profile
PutBodies ==
    {[work_style |-> "flexible", csp_vector |-> getDefaultCsp],
     [csp_vector |-> emptyCsp, id |-> 7]}

mutStripNothing(updates) == updates
\* delete updates.csp_vector; delete updates.id
StripUpdates(updates) ==
    [k \in DOMAIN updates \ {"csp_vector", "id"} |-> updates[k]]

\* .update(updates) on a row
Updated(row, updates) ==
    [k \in DOMAIN row |-> IF k \in DOMAIN updates THEN updates[k] ELSE row[k]]

InitRoutes ==
    /\ profile = [exists |-> TRUE, csp_vector |-> Trusted, work_style |-> "deep_work"]
    /\ feedback = {}
    /\ daily_plans = {OldPlan}
    /\ decisions = {Report}
    /\ requests = Idle
    /\ calls = 0
    /\ loadCall = NoCall
    /\ scoreCall = NoCall
    /\ cardsCall = NoCall
    /\ planCall = [currentHour |-> 13, dayOfWeek |-> 1, sessions |-> <<3600000>>,
                   handlers |-> [r \in PlanHandlers |-> PlanIdle]]
    /\ interaction_events = {}

\* GET /profile and GET /profile/csp: a select
GetProfile ==
    /\ profile.exists
    /\ UNCHANGED vars

\* PUT /profile
PutProfile ==
    /\ \E updates \in PutBodies, outcome \in ReadOutcomes :
          IF outcome = "ok" /\ profile.exists
          THEN profile' = Updated(profile, StripUpdates(updates))
          ELSE UNCHANGED profile
    /\ UNCHANGED <<feedback, daily_plans, decisions, requests, calls, loadCall,
                   scoreCall, cardsCall, planCall, interaction_events>>

\* the decisions the requests of the user create, update and delete
OwnDecisions == {d \in decisions : d.title = Walk.title}

\* POST /decisions
CreateDecision ==
    /\ OwnDecisions = {}
    /\ \E d \in {Walk}, outcome \in ReadOutcomes :
          IF outcome = "ok"
          THEN decisions' = decisions \cup {d}
          ELSE UNCHANGED decisions
    /\ UNCHANGED <<profile, feedback, daily_plans, requests, calls, loadCall,
                   scoreCall, cardsCall, planCall, interaction_events>>

\* PUT /decisions/:id
UpdateDecision ==
    /\ \E d \in OwnDecisions, outcome \in ReadOutcomes :
          IF outcome = "ok"
          THEN decisions' = (decisions \ {d})
                               \cup {Updated(d, [frequency |-> "weekdays"])}
          ELSE UNCHANGED decisions
    /\ UNCHANGED <<profile, feedback, daily_plans, requests, calls, loadCall,
                   scoreCall, cardsCall, planCall, interaction_events>>

\* DELETE /decisions/:id
DeleteDecision ==
    /\ \E d \in OwnDecisions, outcome \in ReadOutcomes :
          IF outcome = "ok"
          THEN decisions' = decisions \ {d}
          ELSE UNCHANGED decisions
    /\ UNCHANGED <<profile, feedback, daily_plans, requests, calls, loadCall,
                   scoreCall, cardsCall, planCall, interaction_events>>

\* POST /plan/accept
AcceptPlan ==
    /\ \E plan_id \in {p.id : p \in daily_plans}, outcome \in ReadOutcomes :
          IF outcome = "ok"
          THEN daily_plans' = {IF p.id = plan_id
                               THEN Updated(p, [accepted |-> TRUE]) ELSE p :
                                  p \in daily_plans}
          ELSE UNCHANGED daily_plans
    /\ UNCHANGED <<profile, feedback, decisions, requests, calls, loadCall,
                   scoreCall, cardsCall, planCall, interaction_events>>

\* POST /events
RecordEvent ==
    /\ Cardinality(interaction_events) < MaxEvents
    /\ \E outcome \in ReadOutcomes :
          IF outcome = "ok"
          THEN interaction_events' = interaction_events \cup
                  {[id |-> Cardinality(interaction_events) + 1,
                    event_type |-> "page_load"]}
          ELSE UNCHANGED interaction_events
    /\ UNCHANGED <<profile, feedback, daily_plans, decisions, requests, calls, loadCall,
                   scoreCall, cardsCall, planCall>>

\* feedback.plan_id is a foreign key: a submission needs its plan
NextRoutes ==
    \/ (daily_plans # {} /\ PostFeedback(1))
    \/ CountersRead(1)
    \/ CountersWrite(1)
    \/ PlanStart(1)
    \/ PlanDelete(1)
    \/ PlanGenerate(1)
    \/ PlanStore(1)
    \/ GetProfile
    \/ PutProfile
    \/ CreateDecision
    \/ UpdateDecision
    \/ DeleteDecision
    \/ AcceptPlan
    \/ RecordEvent

SpecRoutes == InitRoutes /\ [][NextRoutes]_vars

\* C16: the stored vector changes only in the write of a feedback submission,
\* and then to the counted vector of that submission; PUT /profile (whatever its
\* body carries), the reads, the decision routes, plan generation, plan
\* acceptance and event recording leave it as it is
C16_OnlyFeedbackWritesCsp ==
    [][/\ profile'.exists = profile.exists
       /\ (profile.exists /\ profile'.csp_vector # profile.csp_vector)
          => \E r \in Handlers :
                /\ requests[r].pc = "read" /\ requests'[r].pc = "done"
                /\ profile'.csp_vector = CountedCsp(requests[r].read, requests[r].action)
      ]_vars

\* every route has acted: a PUT whose body carried a vector has set work_style,
\* a feedback submission was counted, a plan was regenerated and accepted, a
\* decision and an event were stored
C16_Witness ==
    /\ profile.work_style = "flexible"
    /\ profile.csp_vector = CountedCsp(Trusted, "override")
    /\ requests[1].status = "201"
    /\ planCall.handlers[1].status = "201"
    /\ \E p \in daily_plans : p.id = 1 /\ p.accepted
    /\ Walk \in decisions
    /\ interaction_events # {}


BandWeight(csp, hour) ==
    IF Band(hour) = "morning" THEN csp.morning_task_weight
    ELSE IF Band(hour) = "afternoon" THEN csp.afternoon_task_weight
    ELSE csp.evening_task_weight

\* C18: with w the weight of the band of the hour before the call, an accept
\* leaves min(1, w + 0.1), an override max(0, w - 0.1) and an ignore
\* max(0, w - 0.03); an override or an ignore never raises the weight
C18_BandWeightMoves ==
    (LastCall.pc = "done" /\ BandWeight(Before, LastCall.hour) # Absent)
    => LET w == BandWeight(Before, LastCall.hour)
       IN  BandWeight(After, LastCall.hour) =
              IF LastCall.action = "accept" THEN Min(One, w + LEARNING_RATE)
              ELSE IF LastCall.action = "override" THEN Max(0, w - LEARNING_RATE)
              ELSE Max(0, w - (LEARNING_RATE * 3) \div 10)

\* C19: an override that brings consecutive_overrides to 3 or more leaves
\* suggestion_confidence at max(0, c - 0.1), c the confidence before it
C19_OverrideLowersConfidence ==
    (/\ LastCall.pc = "done" /\ LastCall.action = "override"
     /\ Before.suggestion_confidence # Absent
     /\ After.consecutive_overrides >= 3)
    => After.suggestion_confidence = Max(0, Before.suggestion_confidence - LEARNING_RATE)

\* C20: an ignore adds one to consecutive_ignores; needs_recalibration is set
\* once the count is 5 or more, and an ignore that leaves the count below 5
\* does not set it
C20_IgnoreStreak ==
    (LastCall.pc = "done" /\ LastCall.action = "ignore")
    => /\ After.consecutive_ignores = Or(Before.consecutive_ignores, 0) + 1
       /\ After.consecutive_ignores >= 5 => After.needs_recalibration = TRUE
       /\ After.consecutive_ignores < 5
             => After.needs_recalibration = Before.needs_recalibration

\* the fifth ignore in a row has set the flag
C20_Witness ==
    /\ LastCall.pc = "done" /\ LastCall.action = "ignore"
    /\ After.consecutive_ignores = 5
    /\ Before.needs_recalibration # TRUE
    /\ After.needs_recalibration = TRUE

-----------------------------------------------------------------------------
(* SpecAlternatives: overrides that carry the alternative the user chose,  *)
(* mixed with other feedback, on lists that are empty, nearly full and full *)

MaxPushes == 3

\* the context of an override in which the user chose `chosen` over `original`
ChoiceContext(original, chosen) ==
    [NoContext EXCEPT !.cognitive_load = 40, !.chosen_alternative = chosen,
                      !.original_items = original]

PushContexts == {NoContext, ChoiceContext("Report", "Email"),
                 ChoiceContext("Thesis", "Stretch")}
PushHours == {8, 20}

InitAlternatives ==
    /\ profile \in {ProfileRow(Veteran(k)) : k \in {0, MaxAlternatives - 2, MaxAlternatives}}
    /\ feedback = {}
    /\ daily_plans = NoPlan
    /\ decisions = {}
    /\ requests = Idle
    /\ calls = 0
    /\ loadCall = NoCall
    /\ scoreCall = NoCall
    /\ cardsCall = NoCall
    /\ planCall = NoCall
    /\ interaction_events = {}

\* updateCspFromFeedback(userId, action, context), read to write
LearnAlternative ==
    /\ calls < MaxPushes
    /\ calls' = calls + 1
    /\ \E action \in {"accept", "override"}, context \in PushContexts, hour \in PushHours :
          /\ profile' = ProfileRow(LearnedCsp(profile.csp_vector, action, context, hour))
          /\ requests' = [requests EXCEPT ![1] =
                             [pc |-> "done", via |-> "service", action |-> action,
                              hour |-> hour, read |-> profile.csp_vector,
                              status |-> "csp", context |-> context]]
    /\ UNCHANGED <<feedback, daily_plans, decisions, loadCall, scoreCall, cardsCall,
                   planCall, interaction_events>>

NextAlternatives == LearnAlternative

SpecAlternatives == InitAlternatives /\ [][NextAlternatives]_vars

\* the entry the last call recorded
Recorded == [original |-> LastCall.context.original_items,
             chosen |-> LastCall.context.chosen_alternative,
             time |-> LastCall.hour,
             cognitive_load |-> LastCall.context.cognitive_load]

\* C21: an override that carries a chosen alternative leaves the most recent
\* min(n, 20) entries in the order they were recorded: its own entry comes
\* last, the entries before it keep their order, and on a full list the oldest
\* entry is the one that goes; any other call leaves the list as it was
C21_RecentAlternativesInOrder ==
    LastCall.pc = "done" =>
        LET old == Before.preferred_alternatives
            new == After.preferred_alternatives
            all == old \o <<Recorded>>
            drop == Len(all) - Len(new)
        IN  IF LastCall.action = "override" /\ LastCall.context.chosen_alternative # ""
            THEN /\ Len(new) = Min(Len(all), 20)
                 /\ \A i \in 1..Len(new) : new[i] = all[i + drop]
            ELSE new = old

\* a full list has taken two more entries: the two oldest are gone and the two
\* new ones stand last, in the order of the calls
C21_Witness ==
    /\ LastCall.pc = "done" /\ LastCall.action = "override"
    /\ LastCall.context.chosen_alternative = "Stretch"
    /\ Len(Before.preferred_alternatives) = 20
    /\ Before.preferred_alternatives[20].chosen = "Email"
    /\ Before.preferred_alternatives[19].chosen = "Walk"
    /\ After.preferred_alternatives[20].chosen = "Stretch"
    /\ After.preferred_alternatives[19].chosen = "Email"
    /\ After.preferred_alternatives[18].chosen = "Walk"
    /\ After.total_overrides >= 22

(* Claims on the scorer *)

\* an item without effort, preferred time, meal type or tags
Plain(decision) ==
    /\ decision.effort = Absent /\ decision.preferred_time = Absent
    /\ decision.meal_type = "" /\ decision.tags = {}

\* no recent feedback row is about the item
Unmatched(decision, recentFeedback) ==
    \A i \in DOMAIN recentFeedback :
        /\ ~Mentions(recentFeedback[i], decision.title)
        /\ recentFeedback[i].override_value # decision.title

\* C22: for a plain item without matching feedback and a band weight w of the
\* hour in [0,1], the score is round(50 + 30 * w), and 10 more in the morning
\* when w exceeds 0.6
C22_PlainScore ==
    (/\ scoreCall.pc = "returned"
     /\ Plain(scoreCall.decision)
     /\ Unmatched(scoreCall.decision, scoreCall.recentFeedback)
     /\ BandWeight(scoreCall.csp, scoreCall.currentHour) # Absent)
    => LET w == BandWeight(scoreCall.csp, scoreCall.currentHour)
           bonus == IF Band(scoreCall.currentHour) = "morning" /\ w > 600
                    THEN 10 * One ELSE 0
       IN  scoreCall.score = Round(50 * One + 30 * w + bonus, One)

(* Claims on the cards *)

\* the minutes of an item of a card
Minutes(item, csp) ==
    IF item.type = "task"
    THEN Or(item.decision.estimated_minutes, Or(csp.focus_duration_preference, 50))
    ELSE Or(item.decision.break_duration, 10)

RECURSIVE TotalMinutes(_, _)
TotalMinutes(items, csp) ==
    IF items = <<>> THEN 0
    ELSE Minutes(Head(items), csp) + TotalMinutes(Tail(items), csp)

CardNamed(id) == SelectSeq(cardsCall.cards, LAMBDA card : card.id = id)

C25_ExtraBlock ==
    (cardsCall.pc = "returned" /\ CardNamed("card_4") # <<>>)
    => LET task == CardNamed("card_4")[1].items[1].decision
       IN  /\ cardsCall.autonomyLevel = "manual"
           /\ Len(CardNamed("card_4")[1].items) = 1
           /\ IF cardsCall.currentHour >= 18
              THEN task.effort # Absent /\ task.effort <= 2
              ELSE Len(cardsCall.tasks) >= 3 /\ task = cardsCall.tasks[3]

\* the titles of the tasks a card carries
CardTasks(card) ==
    {card.items[k].decision.title :
        k \in {j \in DOMAIN card.items : card.items[j].type = "task"}}

\* C30: no task is carried by two cards of one result
C30_TasksDistinct ==
    cardsCall.pc = "returned" =>
        \A i, j \in DOMAIN cardsCall.cards :
            i < j => CardTasks(cardsCall.cards[i]) \cap CardTasks(cardsCall.cards[j]) = {}

(* Claims on the estimator *)

\* the band of the estimator an hour falls in: its first hour, its number of
\* hours and the low value of its range
LoadBand(hour) ==
    IF hour >= 6 /\ hour < 12 THEN [first |-> 6, width |-> 6, low |-> 0]
    ELSE IF hour >= 12 /\ hour < 17 THEN [first |-> 12, width |-> 5, low |-> 10]
    ELSE IF hour >= 17 /\ hour < 21 THEN [first |-> 17, width |-> 4, low |-> 15]
    ELSE [first |-> 21, width |-> 9, low |-> 20]

\* C26: the time-of-day value of an hour lies in the range of its band, low to
\* low + 5, and is the value on the line from low at the first hour of the
\* band to low + 5 at its end, rounded to a whole number; the night band runs
\* from 21 over midnight to 5
C26_TimeOfDayLinear ==
    (loadCall.pc = "returned" /\ ~loadCall.result.error)
    => LET band == LoadBand(loadCall.hour)
           k == (loadCall.hour - band.first + 24) % 24
           value == loadCall.result.timeOfDay
           \* twice the distance from the line, in units of 1/width
           off == 2 * ((value - band.low) * band.width - 5 * k)
       IN  /\ band.low <= value /\ value <= band.low + 5
           /\ 0 - band.width <= off /\ off <= band.width

-----------------------------------------------------------------------------
(* Claims on the plan route *)

\* C27: a run of the engine that leaves no card for a user who has an active
\* decision returns a result with a non-empty message, and the request does not
\* end in an error
C27_NoCardsExplained ==
    \A r \in PlanHandlers :
        (/\ decisions # {}
         /\ planCall.handlers[r].planData.generated
         /\ NoCards(planCall.handlers[r].planData))
        => /\ planCall.handlers[r].planData.message # ""
           /\ planCall.handlers[r].status = "200"

-----------------------------------------------------------------------------
(* Claims on the counters of the learning service *)

\* C28: consecutive_ignores is never reset: an accept or an override leaves it
\* as it was, no call lowers it, it equals the number of ignores the vector has
\* counted since it was created, and needs_recalibration stays set once it is
C28_IgnoresNeverReset ==
    LastCall.pc = "done"
    => /\ LastCall.action \in {"accept", "override"}
             => After.consecutive_ignores = Before.consecutive_ignores
       /\ Or(After.consecutive_ignores, 0) >= Or(Before.consecutive_ignores, 0)
       /\ Or(After.consecutive_ignores, 0) = Or(After.total_ignores, 0)
       /\ Before.needs_recalibration = TRUE => After.needs_recalibration = TRUE

\* an accept on a vector that carries the flag after five or more ignores
C28_Witness ==
    /\ LastCall.pc = "done" /\ LastCall.action = "accept"
    /\ Before.needs_recalibration = TRUE
    /\ Before.consecutive_ignores >= 5
    /\ After.consecutive_ignores = Before.consecutive_ignores
    /\ After.needs_recalibration = TRUE
    /\ After.consecutive_accepts >= 1

-----------------------------------------------------------------------------
(* Claims on regeneration *)

\* C29: a forced regeneration does not leave the user without a plan for the
\* day. The requests before request r were not forced and were answered with
\* the plan of the day, so a plan was stored when r arrived; r has been
\* answered and no later request has arrived: a plan is stored, whether the
\* regeneration gave cards or not and whether its insert succeeded or not
C29_RegenerationKeepsPlan ==
    \A r \in PlanHandlers :
        (/\ r > 1
         /\ \A q \in 1..(r - 1) :
               planCall.handlers[q].message = "Plan already exists for today"
         /\ planCall.handlers[r].pc = "done"
         /\ \A q \in PlanHandlers : q > r => planCall.handlers[q].pc = "idle")
        => daily_plans # NoPlan

=============================================================================
